---- MODULE Spec2Model ----
(***************************************************************************)
(* Model of src/compare_sql.py: the preprocessing pipeline on sqlglot      *)
(* expression trees (comment stripping, table-name mapping, construct      *)
(* rewriting, normalisation) and the statement-by-statement comparator     *)
(* compare_sql_files.                                                      *)
(*                                                                         *)
(* A tree node is a record seen through the accessors the code uses:       *)
(* kind (the isinstance tests), name (node.name.upper()), this (node.this),*)
(* comments, and for a table this/db/catalog/alias as texts ("" = absent). *)
(***************************************************************************)
EXTENDS Integers, Sequences, FiniteSets, TLC

\* ------------------------------------------------------------------ bounds
MaxDepth == 2
MaxStmts == 2

\* ------------------------------------------------------------------ nodes
Nil == [kind |-> "Nil"]

NoComments == << >>

Literal(text, cs) == [kind |-> "Literal", name |-> text, comments |-> cs]

Column(text) == [kind |-> "Column", name |-> text, comments |-> NoComments]

Func(nm, x) ==
  [kind |-> "Func", name |-> nm, this |-> x,
   format |-> Literal("YYYY-MM-DD", NoComments), comments |-> NoComments]

Cast(x) == [kind |-> "Cast", this |-> x, to |-> "DATE", comments |-> NoComments]

Table(cat, db, base, al) ==
  [kind |-> "Table", this |-> base, db |-> db, catalog |-> cat, alias |-> al,
   comments |-> NoComments]

Select(e, ts, w, cs) ==
  [kind |-> "Select", expr |-> e, tables |-> ts, where |-> w, comments |-> cs]

Create(t, props, temp, k) ==
  [kind |-> "Create", this |-> t, properties |-> props, temporary |-> temp,
   ckind |-> k, comments |-> NoComments]

\* isinstance(node, exp.Func): exp.Cast is a subclass of exp.Func
IsFunc(node) == node.kind \in {"Func", "Cast"}

\* node.name: for a call its name; for a cast the text of a literal operand
NodeName(node) ==
  IF node.kind \in {"Func", "Literal", "Column"} THEN node.name
  ELSE IF node.kind = "Cast" /\ node.this.kind = "Literal" THEN node.this.name
  ELSE ""

\* ------------------------------------------------------------------ results
\* A call either returns a tree or raises e (the exception propagates).
Ok(t) == [ok |-> TRUE, tree |-> t, error |-> ""]

Raise(e) == [ok |-> FALSE, tree |-> Nil, error |-> e]

\* ------------------------------------------------------------------ 1. comments
RECURSIVE StripComments(_)
StripComments(node) ==
  CASE node.kind \in {"Literal", "Column", "Table"} ->
         [node EXCEPT !.comments = NoComments]
    [] node.kind = "Func" ->
         [node EXCEPT !.comments = NoComments,
                      !.this = StripComments(node.this),
                      !.format = StripComments(node.format)]
    [] node.kind = "Cast" ->
         [node EXCEPT !.comments = NoComments, !.this = StripComments(node.this)]
    [] node.kind = "Select" ->
         [node EXCEPT !.comments = NoComments,
                      !.expr = StripComments(node.expr),
                      !.tables = [k \in DOMAIN node.tables |->
                                    StripComments(node.tables[k])]]
    [] node.kind = "Create" ->
         [node EXCEPT !.comments = NoComments, !.this = StripComments(node.this)]
    [] OTHER -> node

\* ------------------------------------------------------------------ 2. mapping
\* A replacement name is the token sequence of its text.
IsNameToken(tok) == tok \notin {".", "(", ")", "SELECT", "1"}

\* sqlglot.parse_one("SELECT * FROM " + mapped_name).find(exp.Table):
\* "ok" with the table found, "none" when the text parses but holds no
\* table (a parenthesised sub-select), "raise" when it does not parse.
ParseMappedTable(toks) ==
  LET n == Len(toks)
      dotted == /\ n \in {1, 3, 5}
                /\ \A k \in 1..n : IF k % 2 = 1 THEN IsNameToken(toks[k])
                                               ELSE toks[k] = "."
  IN IF dotted
       THEN [status |-> "ok",
             table |-> Table(IF n = 5 THEN toks[1] ELSE "",
                             IF n = 5 THEN toks[3] ELSE IF n = 3 THEN toks[1] ELSE "",
                             toks[n], "")]
     ELSE IF toks = <<"(", "SELECT", "1", ")">>
       THEN [status |-> "none", table |-> Nil]
     ELSE [status |-> "raise", table |-> Nil]

\* mutant: the table node is replaced by the parsed table, alias and all
MapOneTableReplacing(table_expr, table_mapping) ==
  LET base_name == table_expr.this IN
  IF base_name \in DOMAIN table_mapping
    THEN LET parsed == ParseMappedTable(table_mapping[base_name]) IN
         IF parsed.status = "raise" THEN Raise("ParseError")
         ELSE IF parsed.status = "ok" THEN Ok(parsed.table)
         ELSE Ok(table_expr)
  ELSE Ok(table_expr)

\* one iteration of the loop over find_all(exp.Table)
MapOneTable(table_expr, table_mapping) ==
  LET base_name == table_expr.this IN
  IF base_name \in DOMAIN table_mapping
    THEN LET parsed == ParseMappedTable(table_mapping[base_name]) IN
         IF parsed.status = "raise" THEN Raise("ParseError")
         ELSE IF parsed.status = "ok"
           THEN Ok([table_expr EXCEPT !.this = parsed.table.this,
                                      !.db = parsed.table.db,
                                      !.catalog = parsed.table.catalog])
         ELSE Ok(table_expr)
  ELSE Ok(table_expr)

map_table_names(expression, table_mapping) ==
  CASE expression.kind = "Select" ->
         LET rs == [k \in DOMAIN expression.tables |->
                      MapOneTable(expression.tables[k], table_mapping)]
         IN IF \E k \in DOMAIN rs : ~rs[k].ok THEN Raise("ParseError")
            ELSE Ok([expression EXCEPT
                       !.tables = [k \in DOMAIN rs |-> rs[k].tree]])
    [] expression.kind = "Create" ->
         LET r == MapOneTable(expression.this, table_mapping)
         IN IF ~r.ok THEN r ELSE Ok([expression EXCEPT !.this = r.tree])
    [] OTHER -> Ok(expression)

\* ------------------------------------------------------------------ 3. rewriting
\* The result of transform_node: it raises, returns the node it was given
\* (same, possibly modified in place) or returns another node.
Returned(n, sameObject) == [raised |-> FALSE, same |-> sameObject, node |-> n]

Raised == [raised |-> TRUE, same |-> FALSE, node |-> Nil]

transform_node(node) ==
  IF node.kind = "Cast" /\ IsFunc(node.this) /\ NodeName(node.this) = "STR_TO_TIME"
    \* node.this = ...: Expression.this is a property without a setter,
    \* the assignment raises AttributeError
    THEN Raised
  ELSE IF IsFunc(node) /\ NodeName(node) = "TO_DATE"
    THEN Returned(Cast(node.this), FALSE)
  ELSE IF IsFunc(node) /\ NodeName(node) = "STR_TO_TIME"
    THEN Returned(node.this, FALSE)
  ELSE IF node.kind = "Create"
    THEN Returned([node EXCEPT !.properties = << >>,
                               !.ckind = IF node.temporary THEN "TABLE" ELSE @],
                  TRUE)
  ELSE Returned(node, TRUE)

\* Expression.transform: pre-order; the children of a node are visited only
\* when the function returned that same node; a returned replacement is put
\* in its place and not visited.
RECURSIVE Transform(_)
Transform(node) ==
  LET r == transform_node(node) IN
  IF r.raised THEN Raise("AttributeError")
  ELSE IF ~r.same THEN Ok(r.node)
  ELSE LET n == r.node IN
    CASE n.kind \in {"Func", "Cast"} ->
           LET c == Transform(n.this) IN
           IF ~c.ok THEN c ELSE Ok([n EXCEPT !.this = c.tree])
      [] n.kind = "Select" ->
           LET c == Transform(n.expr) IN
           IF ~c.ok THEN c ELSE Ok([n EXCEPT !.expr = c.tree])
      [] OTHER -> Ok(n)

\* ------------------------------------------------------------------ 4. normalize
\* sqlglot.optimizer.normalize: the WHERE condition goes to conjunctive
\* normal form; a condition is a record with op NONE, ATOM, AND or OR.
NoWhere == [op |-> "NONE"]

Atom(a) == [op |-> "ATOM", name |-> a]

And(l, r) == [op |-> "AND", left |-> l, right |-> r]

Or(l, r) == [op |-> "OR", left |-> l, right |-> r]

RECURSIVE Distribute(_)
Distribute(p) ==
  IF p.op \in {"NONE", "ATOM"} THEN p
  ELSE IF p.op = "AND" THEN And(Distribute(p.left), Distribute(p.right))
  ELSE LET l == Distribute(p.left)
           r == Distribute(p.right)
       IN IF l.op = "AND"
            THEN And(Distribute(Or(l.left, r)), Distribute(Or(l.right, r)))
          ELSE IF r.op = "AND"
            THEN And(Distribute(Or(l, r.left)), Distribute(Or(l, r.right)))
          ELSE Or(l, r)

normalize(node) ==
  IF node.kind = "Select" THEN [node EXCEPT !.where = Distribute(node.where)]
  ELSE node

\* ------------------------------------------------------------------ pipeline
\* `if table_mapping:` is false for None and for an empty dict
MappingGiven(table_mapping) == DOMAIN table_mapping # {}

\* a None statement has no walk(): AttributeError
preprocess_tree(sql_tree, table_mapping) ==
  IF sql_tree.kind = "Nil" THEN Raise("AttributeError")
  ELSE
  LET stripped == StripComments(sql_tree)
      mapped == IF MappingGiven(table_mapping)
                  THEN map_table_names(stripped, table_mapping)
                ELSE Ok(stripped)
  IN IF ~mapped.ok THEN mapped
     ELSE LET transformed == Transform(mapped.tree)
          IN IF ~transformed.ok THEN transformed
             ELSE Ok(normalize(transformed.tree))

\* ------------------------------------------------------------------ text
\* Expression.sql(): the text of a tree, as its sequence of tokens.
RECURSIVE Flatten(_)
Flatten(seqs) == IF seqs = << >> THEN << >> ELSE Head(seqs) \o Flatten(Tail(seqs))

CommentSql(cs) == Flatten([k \in DOMAIN cs |-> <<"/*", cs[k], "*/">>])

RECURSIVE WhereSql(_)
WhereSql(p) ==
  CASE p.op = "NONE" -> << >>
    [] p.op = "ATOM" -> <<p.name>>
    [] OTHER -> <<"(">> \o WhereSql(p.left) \o <<p.op>> \o WhereSql(p.right) \o <<")">>

TableSql(t) ==
  (IF t.catalog # "" THEN <<t.catalog, ".">> ELSE << >>)
  \o (IF t.db # "" THEN <<t.db, ".">> ELSE << >>)
  \o <<t.this>>
  \o (IF t.alias # "" THEN <<"AS", t.alias>> ELSE << >>)
  \o CommentSql(t.comments)

RECURSIVE Sql(_)
Sql(node) ==
  CASE node.kind \in {"Literal", "Column"} -> <<node.name>> \o CommentSql(node.comments)
    [] node.kind = "Func" ->
         <<node.name, "(">> \o Sql(node.this) \o <<",">> \o Sql(node.format)
         \o <<")">> \o CommentSql(node.comments)
    [] node.kind = "Cast" ->
         <<"CAST", "(">> \o Sql(node.this) \o <<"AS", node.to, ")">>
         \o CommentSql(node.comments)
    [] node.kind = "Table" -> TableSql(node)
    [] node.kind = "Select" ->
         <<"SELECT">> \o CommentSql(node.comments) \o Sql(node.expr) \o <<"FROM">>
         \o Flatten([k \in DOMAIN node.tables |->
                       (IF k > 1 THEN <<",">> ELSE << >>) \o TableSql(node.tables[k])])
         \o (IF node.where.op # "NONE" THEN <<"WHERE">> \o WhereSql(node.where)
                                        ELSE << >>)
    [] node.kind = "Create" ->
         <<"CREATE">> \o (IF node.temporary THEN <<"TEMPORARY">> ELSE << >>)
         \o <<node.ckind>> \o TableSql(node.this) \o node.properties
         \o CommentSql(node.comments)
    [] OTHER -> << >>

\* ------------------------------------------------------------------ inputs
NoMapping == [k \in {} |-> << >>]

ToLake == "sales" :> <<"lake", ".", "dflt", ".", "sales">>

ToSchema == "sales" :> <<"dflt", ".", "orders">>

Chained == ("sales" :> <<"products">>) @@ ("products" :> <<"archive">>)

Unparsable == "sales" :> <<"(", "(", "(">>

NoTable == "sales" :> <<"(", "SELECT", "1", ")">>

Mappings == {NoMapping, ToLake, ToSchema, Chained, Unparsable, NoTable}

Leaves == {Literal("2020-01-01", <<"c">>), Column("sales")}

FuncNames == {"TO_DATE", "STR_TO_TIME", "UPPER"}

RECURSIVE ExprsUpTo(_)
ExprsUpTo(d) ==
  IF d = 0 THEN Leaves
  ELSE LET S == ExprsUpTo(d - 1)
       IN S \cup {Func(nm, x) : nm \in FuncNames, x \in S} \cup {Cast(x) : x \in S}

Tables ==
  {Table("", "", "sales", "s"), Table("", "", "products", ""),
   Table("old", "db0", "sales", "")}

TableSeqs == {<<t>> : t \in Tables} \cup {<<t, u>> : t \in Tables, u \in Tables}

Cond == Or(And(Atom("p"), Atom("q")), Atom("r"))

PipeTrees ==
  {Select(e, ts, w, << >>) :
     e \in ExprsUpTo(MaxDepth), ts \in TableSeqs, w \in {NoWhere, Cond}}
  \cup {Create(t, props, temp, k) :
          t \in Tables, props \in {<< >>, <<"ON COMMIT PRESERVE ROWS">>},
          temp \in BOOLEAN, k \in {"TABLE", "VIEW"}}

\* statements of the two files, as sqlglot.parse would give them without
\* the comment removal: a tree, Nil (an empty statement parses to None) or
\* a statement the translator rejects
Untranslatable == [kind |-> "Untranslatable"]

LakeSales == Table("lake", "dflt", "sales", "s")

PlainSales == Table("", "", "sales", "s")

CnfCond == And(Or(Atom("p"), Atom("r")), Or(Atom("q"), Atom("r")))

OracleStmts ==
  {Select(Func("TO_DATE", Literal("2020-01-01", <<"c">>)), <<PlainSales>>, NoWhere, <<"c">>),
   Select(Cast(Func("STR_TO_TIME", Literal("2020-01-01", << >>))), <<PlainSales>>,
          NoWhere, << >>),
   Select(Column("sales"), <<PlainSales>>, Cond, << >>),
   Untranslatable,
   Nil}

TrinoStmts ==
  {Select(Cast(Literal("2020-01-01", << >>)), <<LakeSales>>, NoWhere, << >>),
   Select(Cast(Literal("2020-01-01", << >>)), <<PlainSales>>, NoWhere, <<"c">>),
   Select(Column("sales"), <<PlainSales>>, CnfCond, << >>),
   Select(Column("sales"), <<LakeSales>>, Cond, << >>),
   Nil}

RECURSIVE SeqsUpTo(_, _)
SeqsUpTo(S, n) ==
  IF n = 0 THEN {<< >>}
  ELSE LET R == SeqsUpTo(S, n - 1)
       IN R \cup {Append(q, x) : q \in {r \in R : Len(r) = n - 1}, x \in S}

\* a file: missing, text that does not parse, or its statements
MissingFile == [status |-> "missing", stmts |-> << >>]

GarbageFile == [status |-> "garbage", stmts |-> << >>]

TextFile(stmts) == [status |-> "text", stmts |-> stmts]

OracleFiles ==
  {MissingFile, GarbageFile} \cup {TextFile(q) : q \in SeqsUpTo(OracleStmts, MaxStmts)}

TrinoFiles ==
  {MissingFile, GarbageFile} \cup {TextFile(q) : q \in SeqsUpTo(TrinoStmts, MaxStmts)}

CmpMappings == {NoMapping, ToLake, Unparsable}

\* ------------------------------------------------------------------ state
VARIABLES
  \* compare_sql_files
  oracle_file, trino_file, table_mapping,
  pc, i, oracle_expressions, trino_expressions,
  oracle_tree_transpiled, final_oracle_tree, final_trino_tree,
  final_oracle_sql, final_trino_sql,
  printed, steps, result,
  \* preprocess_tree, stage by stage on one tree
  p_in, p_map, p_stage, p_before, p_cur, p_raised_in, p_error, p_pass, p_out1

cmpVars ==
  <<oracle_file, trino_file, table_mapping, pc, i, oracle_expressions,
    trino_expressions, oracle_tree_transpiled, final_oracle_tree,
    final_trino_tree, final_oracle_sql, final_trino_sql, printed, steps, result>>

pipeVars ==
  <<p_in, p_map, p_stage, p_before, p_cur, p_raised_in, p_error, p_pass, p_out1>>

vars == <<cmpVars, pipeVars>>

\* ------------------------------------------------------------------ pipeline
PipeIdle ==
  /\ p_in = Nil /\ p_map = NoMapping /\ p_stage = "idle" /\ p_before = Nil
  /\ p_cur = Nil /\ p_raised_in = "" /\ p_error = "" /\ p_pass = 0 /\ p_out1 = Nil

CmpIdle ==
  /\ oracle_file = MissingFile /\ trino_file = MissingFile
  /\ table_mapping = NoMapping /\ pc = "idle" /\ i = 0
  /\ oracle_expressions = << >> /\ trino_expressions = << >>
  /\ oracle_tree_transpiled = Nil /\ final_oracle_tree = Nil
  /\ final_trino_tree = Nil /\ final_oracle_sql = << >> /\ final_trino_sql = << >>
  /\ printed = << >> /\ steps = {} /\ result = Nil

PipeInit ==
  /\ CmpIdle
  /\ p_in \in PipeTrees
  /\ p_map \in Mappings
  /\ p_stage = "start"
  /\ p_before = Nil
  /\ p_cur = p_in
  /\ p_raised_in = ""
  /\ p_error = ""
  /\ p_pass = 1
  /\ p_out1 = Nil

\* 1. Remove all comments
StripStage ==
  /\ p_stage = "start"
  /\ p_before' = p_cur
  /\ p_cur' = StripComments(p_cur)
  /\ p_stage' = "stripped"
  /\ UNCHANGED <<p_in, p_map, p_raised_in, p_error, p_pass, p_out1, cmpVars>>

\* 2. Apply table name mapping
MapStage ==
  /\ p_stage = "stripped"
  /\ LET r == IF MappingGiven(p_map) THEN map_table_names(p_cur, p_map)
                                     ELSE Ok(p_cur)
     IN /\ p_before' = p_cur
        /\ p_cur' = r.tree
        /\ p_stage' = IF r.ok THEN "mapped" ELSE "raised"
        /\ p_raised_in' = IF r.ok THEN "" ELSE "map_table_names"
        /\ p_error' = r.error
  /\ UNCHANGED <<p_in, p_map, p_pass, p_out1, cmpVars>>

\* 3. Normalize specific constructs
TransformStage ==
  /\ p_stage = "mapped"
  /\ LET r == Transform(p_cur)
     IN /\ p_before' = p_cur
        /\ p_cur' = r.tree
        /\ p_stage' = IF r.ok THEN "transformed" ELSE "raised"
        /\ p_raised_in' = IF r.ok THEN "" ELSE "transform"
        /\ p_error' = r.error
  /\ UNCHANGED <<p_in, p_map, p_pass, p_out1, cmpVars>>

\* 4. sqlglot's normalizer
NormalizeStage ==
  /\ p_stage = "transformed"
  /\ p_before' = p_cur
  /\ p_cur' = normalize(p_cur)
  /\ p_stage' = "normalized"
  /\ UNCHANGED <<p_in, p_map, p_raised_in, p_error, p_pass, p_out1, cmpVars>>

\* the pipeline is run again on its own output
Rerun ==
  /\ p_stage = "normalized"
  /\ p_pass = 1
  /\ p_out1' = p_cur
  /\ p_pass' = 2
  /\ p_stage' = "start"
  /\ UNCHANGED <<p_in, p_map, p_before, p_cur, p_raised_in, p_error, cmpVars>>

PipeNext ==
  \/ StripStage
  \/ MapStage
  \/ TransformStage
  \/ NormalizeStage
  \/ Rerun

SpecPipe == PipeInit /\ [][PipeNext]_vars

\* ------------------------------------------------------------------ comparator
\* (verdict, message): the message by its fixed text, the numbers put in it
\* and the exception e formatted into it
Result(verdict, message, args, e) ==
  [verdict |-> verdict, message |-> message, args |-> args, e |-> e]

MsgNotFound == "Error: {e}"

MsgUnexpected == "An unexpected error occurred: {e}"

MsgCount == "Mismatch in number of statements: Oracle has {}, Trino has {}."

MsgTranspile == "Error transpiling Oracle statement #{}: {e}"

MsgNoMatch == "SQL statements at index {} do not match after normalization."

MsgEquivalent == "All SQL statements appear to be semantically equivalent."

\* re.sub of the line and block comments in the raw text: the parsed
\* statements carry no comments
remove_raw_comments(stmts) ==
  [k \in DOMAIN stmts |->
     IF stmts[k].kind \in {"Select", "Create"} THEN StripComments(stmts[k])
     ELSE stmts[k]]

\* sqlglot.transpile(oracle_expr.sql(), read='oracle', write='trino')[0] and
\* parse_one of it: None has no sql() and a rejected statement raises; the
\* constructs modelled here come back as the same tree
transpile_to_trino(oracle_expr) ==
  IF oracle_expr.kind = "Nil" THEN Raise("AttributeError")
  ELSE IF oracle_expr.kind = "Untranslatable" THEN Raise("ParseError")
  ELSE Ok(oracle_expr)

\* mutant: the mapping is applied to the trino side as well
TrinoSideMappingBoth(mapping) == mapping

\* the mapping handed to preprocess_tree for the statement of the trino file
TrinoSideMapping(mapping) == NoMapping

\* mutant: only a longer oracle file counts as a mismatch
CountsDifferOneWay(o, t) == Len(o) > Len(t)

CountsDiffer(o, t) == Len(o) # Len(t)

TextsDiffer(a, b) == a # b

\* mutant: the loop stops one statement early
LoopDoneEarly(idx, exprs) == idx + 1 >= Len(exprs)

\* for i, oracle_expr in enumerate(oracle_expressions): i counts from 0
LoopDone(idx, exprs) == idx >= Len(exprs)

\* mutant: the messages number the statements from 0
OrdinalFromZero(idx) == idx

\* the statement number i+1 put in the messages and the printed header
Ordinal(idx) == idx + 1

CmpInit ==
  /\ PipeIdle
  /\ oracle_file \in OracleFiles
  /\ trino_file \in TrinoFiles
  /\ table_mapping \in CmpMappings
  /\ pc = "start"
  /\ i = 0
  /\ oracle_expressions = << >>
  /\ trino_expressions = << >>
  /\ oracle_tree_transpiled = Nil
  /\ final_oracle_tree = Nil
  /\ final_trino_tree = Nil
  /\ final_oracle_sql = << >>
  /\ final_trino_sql = << >>
  /\ printed = << >>
  /\ steps = {}
  /\ result = Nil

Return(r) == result' = r /\ pc' = "done"

\* open both files, remove the comments, parse
ReadAndParse ==
  /\ pc = "start"
  /\ IF oracle_file.status = "missing" \/ trino_file.status = "missing"
       THEN /\ Return(Result(FALSE, MsgNotFound, << >>, "FileNotFoundError"))
            /\ UNCHANGED <<oracle_expressions, trino_expressions>>
     ELSE IF oracle_file.status = "garbage" \/ trino_file.status = "garbage"
       THEN /\ Return(Result(FALSE, MsgUnexpected, << >>, "ParseError"))
            /\ UNCHANGED <<oracle_expressions, trino_expressions>>
     ELSE /\ oracle_expressions' = remove_raw_comments(oracle_file.stmts)
          /\ trino_expressions' = remove_raw_comments(trino_file.stmts)
          /\ pc' = "check"
          /\ UNCHANGED result
  /\ UNCHANGED <<oracle_file, trino_file, table_mapping, i, oracle_tree_transpiled,
                 final_oracle_tree, final_trino_tree, final_oracle_sql,
                 final_trino_sql, printed, steps, pipeVars>>

CheckCounts ==
  /\ pc = "check"
  /\ IF CountsDiffer(oracle_expressions, trino_expressions)
       THEN /\ Return(Result(FALSE, MsgCount,
                             <<Len(oracle_expressions), Len(trino_expressions)>>, ""))
            /\ UNCHANGED i
     ELSE /\ pc' = "loop"
          /\ i' = 0
          /\ UNCHANGED result
  /\ UNCHANGED <<oracle_file, trino_file, table_mapping, oracle_expressions,
                 trino_expressions, oracle_tree_transpiled, final_oracle_tree,
                 final_trino_tree, final_oracle_sql, final_trino_sql, printed,
                 steps, pipeVars>>

\* mutant: a statement that fails to transpile is skipped
TranspileSkipping ==
  /\ pc = "loop"
  /\ ~LoopDone(i, oracle_expressions)
  /\ steps' = steps \cup {<<"transpile", i>>}
  /\ LET r == transpile_to_trino(oracle_expressions[i + 1])
     IN IF r.ok
          THEN /\ oracle_tree_transpiled' = r.tree
               /\ pc' = "preprocess"
               /\ i' = i
        ELSE /\ i' = i + 1
             /\ pc' = "loop"
             /\ UNCHANGED oracle_tree_transpiled
  /\ UNCHANGED <<oracle_file, trino_file, table_mapping, oracle_expressions,
                 trino_expressions, final_oracle_tree, final_trino_tree,
                 final_oracle_sql, final_trino_sql, printed, result, pipeVars>>

\* Transpile Oracle to Trino first
Transpile ==
  /\ pc = "loop"
  /\ ~LoopDone(i, oracle_expressions)
  /\ steps' = steps \cup {<<"transpile", i>>}
  /\ LET r == transpile_to_trino(oracle_expressions[i + 1])
     IN IF r.ok
          THEN /\ oracle_tree_transpiled' = r.tree
               /\ pc' = "preprocess"
               /\ UNCHANGED result
        ELSE /\ Return(Result(FALSE, MsgTranspile, <<Ordinal(i)>>, r.error))
             /\ UNCHANGED oracle_tree_transpiled
  /\ UNCHANGED <<oracle_file, trino_file, table_mapping, i, oracle_expressions,
                 trino_expressions, final_oracle_tree, final_trino_tree,
                 final_oracle_sql, final_trino_sql, printed, pipeVars>>

\* preprocess both trees, generate and print the two texts
Preprocess ==
  /\ pc = "preprocess"
  /\ LET o == preprocess_tree(oracle_tree_transpiled, table_mapping)
         t == preprocess_tree(trino_expressions[i + 1], TrinoSideMapping(table_mapping))
     IN IF ~o.ok
          THEN /\ Return(Result(FALSE, MsgUnexpected, << >>, o.error))
               /\ steps' = steps \cup {<<"preprocess_oracle", i>>}
               /\ UNCHANGED <<final_oracle_tree, final_trino_tree, final_oracle_sql,
                              final_trino_sql, printed>>
        ELSE IF ~t.ok
          THEN /\ Return(Result(FALSE, MsgUnexpected, << >>, t.error))
               /\ steps' = steps \cup {<<"preprocess_oracle", i>>, <<"preprocess_trino", i>>}
               /\ UNCHANGED <<final_oracle_tree, final_trino_tree, final_oracle_sql,
                              final_trino_sql, printed>>
        ELSE /\ final_oracle_tree' = o.tree
             /\ final_trino_tree' = t.tree
             /\ final_oracle_sql' = Sql(o.tree)
             /\ final_trino_sql' = Sql(t.tree)
             /\ printed' = Append(printed, [statement |-> Ordinal(i), oracle |-> Sql(o.tree),
                                            trino |-> Sql(t.tree)])
             /\ steps' = steps \cup {<<"preprocess_oracle", i>>, <<"preprocess_trino", i>>,
                                     <<"serialize", i>>}
             /\ pc' = "compare"
             /\ UNCHANGED result
  /\ UNCHANGED <<oracle_file, trino_file, table_mapping, i, oracle_expressions,
                 trino_expressions, oracle_tree_transpiled, pipeVars>>

Compare ==
  /\ pc = "compare"
  /\ steps' = steps \cup {<<"compare", i>>}
  /\ IF TextsDiffer(final_oracle_sql, final_trino_sql)
       THEN /\ Return(Result(FALSE, MsgNoMatch, <<Ordinal(i)>>, ""))
            /\ UNCHANGED i
     ELSE /\ i' = i + 1
          /\ pc' = "loop"
          /\ UNCHANGED result
  /\ UNCHANGED <<oracle_file, trino_file, table_mapping, oracle_expressions,
                 trino_expressions, oracle_tree_transpiled, final_oracle_tree,
                 final_trino_tree, final_oracle_sql, final_trino_sql, printed,
                 pipeVars>>

ReturnEquivalent ==
  /\ pc = "loop"
  /\ LoopDone(i, oracle_expressions)
  /\ Return(Result(TRUE, MsgEquivalent, << >>, ""))
  /\ UNCHANGED <<oracle_file, trino_file, table_mapping, i, oracle_expressions,
                 trino_expressions, oracle_tree_transpiled, final_oracle_tree,
                 final_trino_tree, final_oracle_sql, final_trino_sql, printed,
                 steps, pipeVars>>

Next ==
  \/ ReadAndParse
  \/ CheckCounts
  \/ Transpile
  \/ Preprocess
  \/ Compare
  \/ ReturnEquivalent

Spec == CmpInit /\ [][Next]_vars

\* ------------------------------------------------------------------ properties
BothParsed == oracle_file.status = "text" /\ trino_file.status = "text"

SameCount == Len(oracle_file.stmts) = Len(trino_file.stmts)

\* what becomes of the k-th pair of statements when it is processed
PairOutcome(k) ==
  LET tr == transpile_to_trino(oracle_file.stmts[k]) IN
  IF ~tr.ok THEN "transpile_error"
  ELSE LET o == preprocess_tree(tr.tree, table_mapping)
           t == preprocess_tree(trino_file.stmts[k], NoMapping)
       IN IF ~o.ok \/ ~t.ok THEN "raised"
          ELSE IF Sql(o.tree) = Sql(t.tree) THEN "equal"
          ELSE "differ"

SourceText(k) ==
  Sql(preprocess_tree(transpile_to_trino(oracle_file.stmts[k]).tree, table_mapping).tree)

TargetText(k) == Sql(preprocess_tree(trino_file.stmts[k], NoMapping).tree)

\* the first pair that is not equal, 0 when all are
FirstNotEqual ==
  LET bad == {k \in 1..Len(oracle_file.stmts) : PairOutcome(k) # "equal"}
  IN IF bad = {} THEN 0 ELSE CHOOSE k \in bad : \A j \in bad : k <= j

\* C1: when the two parsed sequences differ in length the comparison ends
\* with the count-mismatch result carrying both counts, and no
\* per-statement step has run for any index.
C1_CountMismatchAborts ==
  (pc \notin {"start", "check"} /\ BothParsed /\ ~SameCount) =>
    /\ pc = "done"
    /\ result = Result(FALSE, MsgCount,
                       <<Len(oracle_file.stmts), Len(trino_file.stmts)>>, "")
    /\ steps = {}
    /\ printed = << >>

C1_Witness ==
  /\ pc = "done"
  /\ Len(oracle_expressions) = 2
  /\ Len(trino_expressions) = 1
  /\ result.message = MsgCount
  /\ result.args = <<2, 1>>

C3_EquivalentIff ==
  pc = "done" =>
    /\ result.verdict <=>
         /\ BothParsed
         /\ SameCount
         /\ \A k \in 1..Len(oracle_file.stmts) : PairOutcome(k) = "equal"
    /\ result.verdict <=> (result.message = MsgEquivalent)

C3_Witness ==
  /\ pc = "done"
  /\ result.verdict
  /\ Len(oracle_expressions) = 2
  /\ table_mapping = ToLake

\* C4: when the translation of statement i has been tried and failed, the
\* comparison has ended with the transpile error for that statement; no
\* later step has run for statement i and no step for a later statement.
C4_TranspileFailureAborts ==
  \A k \in 0..(Len(oracle_expressions) - 1) :
    (<<"transpile", k>> \in steps /\ ~transpile_to_trino(oracle_expressions[k + 1]).ok) =>
      /\ pc = "done"
      /\ result.verdict = FALSE
      /\ result.message = MsgTranspile
      /\ result.args = <<k + 1>>
      /\ \A st \in steps : st[2] < k \/ st = <<"transpile", k>>

C4_Witness ==
  /\ pc = "done"
  /\ result.message = MsgTranspile
  /\ result.args = <<2>>
  /\ <<"compare", 0>> \in steps
  /\ oracle_expressions[2] = Untranslatable

\* C10: once a pair is preprocessed, both trees have gone through comment
\* strip, rewriting and normalisation in that order, the oracle-side tree
\* also through the mapping, and every table of the trino-side tree is the
\* one parsed from the file, also when its base name is a key.
C10_MappingOnlyOnSource ==
  pc = "compare" =>
    LET src == oracle_tree_transpiled
        tgt == trino_expressions[i + 1]
        mappedSrc == IF MappingGiven(table_mapping)
                       THEN map_table_names(StripComments(src), table_mapping).tree
                     ELSE StripComments(src)
    IN /\ final_oracle_tree = normalize(Transform(mappedSrc).tree)
       /\ final_trino_tree = normalize(Transform(StripComments(tgt)).tree)
       /\ tgt.kind = "Select" => final_trino_tree.tables = tgt.tables

C10_Witness ==
  /\ pc = "compare"
  /\ table_mapping = ToLake
  /\ trino_expressions[i + 1].tables = <<PlainSales>>
  /\ final_trino_tree.tables = <<PlainSales>>
  /\ final_oracle_tree.tables = <<LakeSales>>

\* ---- the pipeline, stage by stage (SpecPipe)
\* the parts a dotted replacement name denotes
ExpectedParts(toks) ==
  LET n == Len(toks) IN
  [catalog |-> IF n = 5 THEN toks[1] ELSE "",
   db |-> IF n >= 3 THEN toks[n - 2] ELSE "",
   this |-> toks[n]]

ValidName(toks) == ParseMappedTable(toks).status = "ok"

TableFrame(before, after, mapping) ==
  IF before.this \notin DOMAIN mapping THEN after = before
  ELSE IF ValidName(mapping[before.this])
    THEN LET parts == ExpectedParts(mapping[before.this]) IN
         /\ after.kind = "Table"
         /\ after.catalog = parts.catalog
         /\ after.db = parts.db
         /\ after.this = parts.this
         /\ after.alias = before.alias
         /\ after.comments = before.comments
  ELSE TRUE

\* C6: after map_table_names, a table whose base name is no key is
\* unchanged; one whose key has a valid replacement has exactly the
\* replacement's catalog, schema and base name (absent parts absent) and its
\* own alias; nothing but the tables has changed.
C6_RemapFrame ==
  p_stage = "mapped" =>
    IF p_before.kind = "Select"
      THEN /\ p_cur.kind = "Select"
           /\ DOMAIN p_cur.tables = DOMAIN p_before.tables
           /\ \A k \in DOMAIN p_before.tables :
                TableFrame(p_before.tables[k], p_cur.tables[k], p_map)
           /\ p_cur.expr = p_before.expr
           /\ p_cur.where = p_before.where
           /\ p_cur.comments = p_before.comments
    ELSE /\ TableFrame(p_before.this, p_cur.this, p_map)
         /\ p_cur = [p_before EXCEPT !.this = p_cur.this]

C6_Witness ==
  /\ p_stage = "mapped"
  /\ p_map = ToSchema
  /\ p_before.kind = "Select"
  /\ p_before.expr = Column("sales")
  /\ p_before.tables = <<Table("", "", "sales", "s"), Table("old", "db0", "sales", "")>>
  /\ p_cur.tables = <<Table("", "dflt", "orders", "s"), Table("", "dflt", "orders", "")>>
  /\ p_cur.expr = Column("sales")

TablesOf(tree) ==
  IF tree.kind = "Select" THEN {tree.tables[k] : k \in DOMAIN tree.tables}
  ELSE {tree.this}

\* C5: when the base name of a table is a key whose replacement does not
\* parse as a table reference, remapping fails with MappingParseError naming
\* the key, and the table is never left unmapped in silence.
C5_MappingParseError ==
  \A t \in (IF p_stage \in {"mapped", "raised"} /\ p_raised_in # "transform"
              THEN TablesOf(p_before) ELSE {}) :
    (t.this \in DOMAIN p_map /\ ~ValidName(p_map[t.this])) =>
      /\ p_stage = "raised"
      /\ p_error = "MappingParseError"

\* C7: CAST(STR_TO_TIME(e, f) AS DATE) and TO_DATE(e, f) both become
\* CAST(e AS DATE).
C7_DateRulesAgree ==
  (p_raised_in = "transform" \/ p_stage = "transformed") /\ p_before.kind = "Select" =>
    LET x == p_before.expr IN
    /\ (x.kind = "Cast" /\ x.this.kind = "Func" /\ x.this.name = "STR_TO_TIME") =>
         /\ p_stage = "transformed"
         /\ p_cur.expr = Cast(x.this.this)
    /\ (x.kind = "Func" /\ x.name = "TO_DATE") =>
         /\ p_stage = "transformed"
         /\ p_cur.expr = Cast(x.this)

\* C8: running the pipeline on its own output gives the same text.
C8_Idempotent ==
  p_pass = 2 =>
    /\ p_stage # "raised"
    /\ p_stage = "normalized" => Sql(p_cur) = Sql(p_out1)

RECURSIVE HasDateCall(_)
HasDateCall(node) ==
  CASE node.kind = "Func" ->
         node.name \in {"TO_DATE", "STR_TO_TIME"} \/ HasDateCall(node.this)
    [] node.kind = "Cast" -> HasDateCall(node.this)
    [] node.kind = "Select" -> HasDateCall(node.expr)
    [] OTHER -> FALSE

\* C9: when the rewriting returns, no date-parse or date-convert call is
\* left anywhere in the tree and rewriting the result changes nothing.
C9_Fixpoint ==
  p_stage = "transformed" =>
    /\ ~HasDateCall(p_cur)
    /\ Transform(p_cur) = Ok(p_cur)

====
